---- MODULE Spec2Model ----
(***************************************************************************)
(* Model of word_count.py: cli() validates the parsed arguments, main()    *)
(* fetches the word list with one HTTP GET, splits it on newlines, filters *)
(* every entry with match_letters and match_substrings and prints the      *)
(* number of entries that passed.                                          *)
(*                                                                         *)
(* A Python str is a sequence of one-character strings; an Optional value  *)
(* is None (the empty tuple) or Some(x) (the one-element tuple <<x>>).     *)
(***************************************************************************)
EXTENDS Integers, Sequences, FiniteSets

VARIABLES
    pc,           \* position of the run: "cli", "get", "filter", "done", "failed"
    letters,      \* args.letters
    positions,    \* args.positions
    substrings,   \* args.substrings
    error,        \* the exception that ended the run, "" when none
    gets,         \* number of HTTP GETs issued
    res,          \* None, or Some(res.text) once the GET has succeeded
    words,        \* res.text.split("\n")
    idx,          \* number of entries of words the comprehension has consumed
    valid_words,  \* the entries kept so far
    stdout        \* the numbers n of the printed lines MATCHING WORD COUNT: n

vars == <<pc, letters, positions, substrings, error, gets, res, words,
          idx, valid_words, stdout>>

-----------------------------------------------------------------------------
(* Bounds of the input space *)

MaxLetters == 2
MaxPositions == 2
MaxSubs == 2
MaxRepeat == 6
MaxLines == 2

-----------------------------------------------------------------------------
(* Optional values *)

None == << >>
Some(x) == << x >>
Value(o) == o[1]

(* All sequences over S with length in lo..hi *)
SeqsOf(S, lo, hi) == UNION { [1..n -> S] : n \in lo..hi }

Repeat(x, n) == [k \in 1..n |-> x]

-----------------------------------------------------------------------------
(* Input tokens *)

NL == "\n"

LetterTokens == { << >>, <<"c">>, <<"e">>, <<"c", "e">> }

PositionValues == { -1, 0, 4, 5 }

SubstringTokens == { <<"r", "a">>, <<"a", "n">> }

LongSubstring == <<"c", "r", "a", "n", "e", "s">>

Lines == { << >>, <<"c", "r">>, <<"c", "r", "a", "n", "e">>,
           <<"C", "r", "a", "t", "e">> }

(* argparse, nargs="+": an option is absent (None) or a non-empty list *)
LettersArgs == {None} \cup { Some(l) : l \in SeqsOf(LetterTokens, 1, MaxLetters) }

PositionsArgs == {None} \cup { Some(p) : p \in SeqsOf(PositionValues, 1, MaxPositions) }

SubstringsArgs == {None, Some(<< LongSubstring >>)}
    \cup { Some(s) : s \in SeqsOf(SubstringTokens, 1, MaxSubs) }
    \cup { Some(Repeat(<<"r", "a">>, n)) : n \in 1..MaxRepeat }

(* The body of the HTTP response: lines joined by newlines.  An empty last *)
(* line is a text that ends with a newline.                                *)
RECURSIVE Join(_)
Join(ls) == IF Len(ls) = 1 THEN ls[1]
            ELSE ls[1] \o <<NL>> \o Join(Tail(ls))

Texts == { Join(ls) : ls \in SeqsOf(Lines, 1, MaxLines) }

-----------------------------------------------------------------------------
(* Python primitives *)

(* str.split("\n") *)
RECURSIVE split(_)
split(s) ==
    IF \A k \in 1..Len(s) : s[k] # NL THEN << s >>
    ELSE LET k == CHOOSE j \in 1..Len(s) :
                      s[j] = NL /\ \A m \in 1..(j - 1) : s[m] # NL
         IN  << SubSeq(s, 1, k - 1) >> \o split(SubSeq(s, k + 1, Len(s)))

(* sub in word, for two str *)
In(sub, word) ==
    \E k \in 0..(Len(word) - Len(sub)) : SubSeq(word, k + 1, k + Len(sub)) = sub

(* Mutation: the position is taken as 1-based *)
Index_one_based(word, p) ==
    IF p >= 1 /\ p <= Len(word) THEN << word[p] >>
    ELSE IF p < 0 /\ -p <= Len(word) THEN << word[Len(word) + p + 1] >>
    ELSE << >>

(* word[p]: << >> stands for a raised IndexError, else <<character>> *)
Index(word, p) ==
    IF p >= 0 /\ p < Len(word) THEN << word[p + 1] >>
    ELSE IF p < 0 /\ -p <= Len(word) THEN << word[Len(word) + p + 1] >>
    ELSE << >>

Min(a, b) == IF a < b THEN a ELSE b

-----------------------------------------------------------------------------
(* cli(): the checks after parse_args, in order; "" when none raises *)

MaxSubstringCount == 5
MaxPosition == 4

ValueErrors ==
    { "Each letter must be a single character. Letters must be separated by spaces",
      "A position must be provided for each letter",
      "The same position cannot be provided twice",
      "Valid positions are 0, 1, 2, 3, or 4",
      "A list of letters is required when using the --positions argument",
      "A substring annot be longer than a valid wordle guess" }

(* Mutation: the check for a repeated position is missing *)
cli_no_duplicate_check(l, p, s) ==
    IF l # None /\ \E k \in DOMAIN Value(l) : Len(Value(l)[k]) > 1
    THEN "Each letter must be a single character. Letters must be separated by spaces"
    ELSE IF l # None /\ p # None /\ Len(Value(l)) # Len(Value(p))
    THEN "A position must be provided for each letter"
    ELSE IF l # None /\ p # None
            /\ \E k \in DOMAIN Value(p) : Value(p)[k] < 0 \/ Value(p)[k] > MaxPosition
    THEN "Valid positions are 0, 1, 2, 3, or 4"
    ELSE IF p # None /\ l = None
    THEN "A list of letters is required when using the --positions argument"
    ELSE IF s # None /\ Len(Value(s)) > MaxSubstringCount
    THEN "A substring annot be longer than a valid wordle guess"
    ELSE ""

cli(l, p, s) ==
    IF l # None /\ \E k \in DOMAIN Value(l) : Len(Value(l)[k]) > 1
    THEN "Each letter must be a single character. Letters must be separated by spaces"
    ELSE IF l # None /\ p # None /\ Len(Value(l)) # Len(Value(p))
    THEN "A position must be provided for each letter"
    ELSE IF l # None /\ p # None
            /\ Cardinality({ Value(p)[k] : k \in DOMAIN Value(p) }) # Len(Value(p))
    THEN "The same position cannot be provided twice"
    ELSE IF l # None /\ p # None
            /\ \E k \in DOMAIN Value(p) : Value(p)[k] < 0 \/ Value(p)[k] > MaxPosition
    THEN "Valid positions are 0, 1, 2, 3, or 4"
    ELSE IF p # None /\ l = None
    THEN "A list of letters is required when using the --positions argument"
    ELSE IF s # None /\ Len(Value(s)) > MaxSubstringCount
    THEN "A substring annot be longer than a valid wordle guess"
    ELSE ""

-----------------------------------------------------------------------------
(* match_letters: "True", "False" or "IndexError" *)

(* all(word[p] == l for l, p in zip(letters, positions)), from pair k on;  *)
(* all() stops at the first false pair, zip at the shorter list            *)
RECURSIVE all_positions(_, _, _, _)
all_positions(word, ls, ps, k) ==
    IF k > Min(Len(ls), Len(ps)) THEN "True"
    ELSE IF Index(word, ps[k]) = << >> THEN "IndexError"
    ELSE IF Index(word, ps[k]) # ls[k] THEN "False"
    ELSE all_positions(word, ls, ps, k + 1)

(* Mutation: without positions, one of the letters is enough *)
match_letters_any(word, l, p) ==
    IF l = None THEN "True"
    ELSE IF p # None THEN all_positions(word, Value(l), Value(p), 1)
    ELSE IF \E k \in DOMAIN Value(l) : In(Value(l)[k], word) THEN "True"
    ELSE "False"

match_letters(word, l, p) ==
    IF l = None THEN "True"
    ELSE IF p # None THEN all_positions(word, Value(l), Value(p), 1)
    ELSE IF \A k \in DOMAIN Value(l) : In(Value(l)[k], word) THEN "True"
    ELSE "False"

(* Mutation: one of the substrings is enough *)
match_substrings_any(word, s) ==
    IF s = None THEN TRUE
    ELSE \E k \in DOMAIN Value(s) : In(Value(s)[k], word)

match_substrings(word, s) ==
    IF s = None THEN TRUE
    ELSE \A k \in DOMAIN Value(s) : In(Value(s)[k], word)

-----------------------------------------------------------------------------
(* The run *)

Init ==
    /\ pc = "cli"
    /\ letters \in LettersArgs
    /\ positions \in PositionsArgs
    /\ substrings \in SubstringsArgs
    /\ error = ""
    /\ gets = 0
    /\ res = None
    /\ words = << >>
    /\ idx = 0
    /\ valid_words = << >>
    /\ stdout = << >>

(* Mutation: the ValueError is reported but main runs all the same *)
Cli_continue ==
    /\ pc = "cli"
    /\ error' = cli(letters, positions, substrings)
    /\ pc' = "get"
    /\ UNCHANGED <<letters, positions, substrings, gets, res, words, idx,
                   valid_words, stdout>>

(* cli(): a failed check raises ValueError and main is never called *)
Cli ==
    /\ pc = "cli"
    /\ error' = cli(letters, positions, substrings)
    /\ pc' = IF error' = "" THEN "get" ELSE "failed"
    /\ UNCHANGED <<letters, positions, substrings, gets, res, words, idx,
                   valid_words, stdout>>

(* requests.get and raise_for_status: the GET is issued, then either an    *)
(* exception ends the run or the body is split on newlines                 *)
GetOutcomes == { "ok", "ConnectionError", "HTTPError" }

Get ==
    /\ pc = "get"
    /\ gets' = gets + 1
    /\ \E outcome \in GetOutcomes :
          IF outcome = "ok"
          THEN \E t \in Texts :
                  /\ res' = Some(t)
                  /\ words' = split(t)
                  /\ pc' = "filter"
                  /\ error' = error
          ELSE /\ error' = outcome
               /\ pc' = "failed"
               /\ UNCHANGED <<res, words>>
    /\ UNCHANGED <<letters, positions, substrings, idx, valid_words, stdout>>

(* Mutation: an entry is kept when either predicate holds *)
Filter_or ==
    /\ pc = "filter"
    /\ idx < Len(words)
    /\ LET word == words[idx + 1]
           m == match_letters(word, letters, positions)
       IN  IF m = "IndexError"
           THEN /\ error' = "IndexError"
                /\ pc' = "failed"
                /\ UNCHANGED <<idx, valid_words>>
           ELSE /\ idx' = idx + 1
                /\ valid_words' =
                      IF m = "True" \/ match_substrings(word, substrings)
                      THEN Append(valid_words, word) ELSE valid_words
                /\ UNCHANGED <<pc, error>>
    /\ UNCHANGED <<letters, positions, substrings, gets, res, words, stdout>>

(* one iteration of the list comprehension *)
Filter ==
    /\ pc = "filter"
    /\ idx < Len(words)
    /\ LET word == words[idx + 1]
           m == match_letters(word, letters, positions)
       IN  IF m = "IndexError"
           THEN /\ error' = "IndexError"
                /\ pc' = "failed"
                /\ UNCHANGED <<idx, valid_words>>
           ELSE /\ idx' = idx + 1
                /\ valid_words' =
                      IF m = "True" /\ match_substrings(word, substrings)
                      THEN Append(valid_words, word) ELSE valid_words
                /\ UNCHANGED <<pc, error>>
    /\ UNCHANGED <<letters, positions, substrings, gets, res, words, stdout>>

(* matching_word_count = len(valid_words); print *)
PrintCount ==
    /\ pc = "filter"
    /\ idx = Len(words)
    /\ stdout' = Append(stdout, Len(valid_words))
    /\ pc' = "done"
    /\ UNCHANGED <<letters, positions, substrings, error, gets, res, words,
                   idx, valid_words>>

Next == Cli \/ Get \/ Filter \/ PrintCount

Spec == Init /\ [][Next]_vars

-----------------------------------------------------------------------------
(* Vocabulary of the properties *)

Rejected == pc = "failed" /\ error \in ValueErrors

Accepted == pc # "cli" /\ error \notin ValueErrors

Fetched == pc \in {"filter", "done"} \/ (pc = "failed" /\ error = "IndexError")

NoConstraints == letters = None /\ positions = None /\ substrings = None

(* character c occurs in word w *)
Occurs(c, w) == \E m \in 1..Len(w) : w[m] = c

(* s is a contiguous run of characters of w *)
Contiguous(s, w) ==
    \E o \in 0..Len(w) : o + Len(s) <= Len(w) /\ \A j \in 1..Len(s) : w[o + j] = s[j]

Range(f) == { f[k] : k \in DOMAIN f }

-----------------------------------------------------------------------------
(* C1: once cli has run, an arguments list holding a substring longer than  *)
(* 5 characters has been rejected with a ValueError, and the substring rule *)
(* has rejected no list whose substrings all have at most 5 characters.     *)
C1_LongSubstringRejected ==
    /\ (pc # "cli" /\ substrings # None
          /\ \E k \in DOMAIN Value(substrings) : Len(Value(substrings)[k]) > 5)
       => Rejected
    /\ error = "A substring annot be longer than a valid wordle guess"
       => \E k \in DOMAIN Value(substrings) : Len(Value(substrings)[k]) > 5

(* C2: once cli has run, a letters list holding a token whose length is not *)
(* exactly 1 (longer, or empty) has been rejected with a ValueError, so     *)
(* every accepted letters list has only tokens of length 1.                 *)
C2_LetterTokensSingle ==
    (pc # "cli" /\ letters # None
       /\ \E k \in DOMAIN Value(letters) : Len(Value(letters)[k]) # 1)
    => Rejected

(* C3: arguments accepted with positions present have letters present, as   *)
(* many letters as positions, pairwise distinct positions, all in 0..4; any *)
(* other arguments with positions are rejected with a ValueError before the *)
(* GET and before any word is filtered.                                     *)
PositionsWellFormed ==
    /\ letters # None
    /\ Len(Value(letters)) = Len(Value(positions))
    /\ \A i, j \in DOMAIN Value(positions) :
          i # j => Value(positions)[i] # Value(positions)[j]
    /\ \A i \in DOMAIN Value(positions) : Value(positions)[i] \in 0..4

C3_PositionsValidated ==
    (pc # "cli" /\ positions # None) =>
        /\ Accepted => PositionsWellFormed
        /\ ~PositionsWellFormed =>
              Rejected /\ gets = 0 /\ res = None /\ idx = 0 /\ valid_words = << >>

C3_Witness ==
    /\ pc = "filter" /\ idx = 1
    /\ positions # None /\ Len(Value(positions)) = 2

(* C4: the one number printed is the number of entries of the split list,   *)
(* counted by index so that duplicates count separately and the order of    *)
(* the list is irrelevant, for which match_letters and match_substrings are *)
(* both true; every entry has been consumed; with no constraint at all the  *)
(* number is the length of the list.                                        *)
Matching ==
    { k \in DOMAIN words :
        /\ match_letters(words[k], letters, positions) = "True"
        /\ match_substrings(words[k], substrings) }

C4_CountIsNumberOfMatches ==
    pc = "done" =>
        /\ stdout = << Cardinality(Matching) >>
        /\ idx = Len(words)
        /\ NoConstraints => stdout = << Len(words) >>

C4_Witness ==
    /\ pc = "done" /\ stdout = << 1 >>
    /\ Len(words) = 2 /\ letters # None /\ substrings # None

(* C5: with letters L and positions P, match_letters of a 5-character word  *)
(* w is true iff w[P[i]] = L[i] for every i (characters compared as they    *)
(* are, "c" differs from "C"), and false otherwise; with letters absent it  *)
(* is true of every entry.  Stated of the entry the comprehension has just  *)
(* consumed.                                                                *)
C5_PositionalMatch ==
    (Fetched /\ idx >= 1) =>
        LET w == words[idx] IN
        /\ letters = None => match_letters(w, letters, positions) = "True"
        /\ (letters # None /\ positions # None /\ Len(w) = 5) =>
              match_letters(w, letters, positions) =
                 IF \A i \in DOMAIN Value(letters) :
                       << w[Value(positions)[i] + 1] >> = Value(letters)[i]
                 THEN "True" ELSE "False"

C5_Witness ==
    /\ pc = "done"
    /\ letters = Some(<< <<"c">>, <<"e">> >>) /\ positions = Some(<< 0, 4 >>)
    /\ words = << <<"C", "r", "a", "t", "e">>, <<"c", "r", "a", "n", "e">> >>
    /\ valid_words = << <<"c", "r", "a", "n", "e">> >>

(* C6: with letters L and no positions, match_letters of an entry w is true *)
(* iff every character of L occurs in w, and false otherwise; any list with *)
(* the same set of letters gives the same answer.  Stated of the entry the  *)
(* comprehension has just consumed.                                         *)
C6_ContainmentMatch ==
    (Fetched /\ idx >= 1 /\ letters # None /\ positions = None) =>
        LET w == words[idx] IN
        /\ match_letters(w, letters, None) =
              IF \A i \in DOMAIN Value(letters) :
                    \A j \in DOMAIN Value(letters)[i] : Occurs(Value(letters)[i][j], w)
              THEN "True" ELSE "False"
        /\ \A l2 \in SeqsOf(Range(Value(letters)), 1, MaxLetters) :
              Range(l2) = Range(Value(letters)) =>
                 match_letters(w, Some(l2), None) = match_letters(w, letters, None)

C6_Witness ==
    /\ pc = "done" /\ positions = None /\ substrings = None
    /\ letters = Some(<< <<"e">>, <<"e">> >>)
    /\ words = << <<"c", "r">>, <<"c", "r", "a", "n", "e">> >>
    /\ valid_words = << <<"c", "r", "a", "n", "e">> >>

(* C7: match_substrings of an entry w is true when substrings is absent,    *)
(* and otherwise true iff every listed string is a contiguous run of        *)
(* characters of w.  Stated of the entry the comprehension has just         *)
(* consumed.                                                                *)
C7_SubstringMatch ==
    (Fetched /\ idx >= 1) =>
        LET w == words[idx] IN
        match_substrings(w, substrings) <=>
           \/ substrings = None
           \/ \A i \in DOMAIN Value(substrings) : Contiguous(Value(substrings)[i], w)

C7_Witness ==
    /\ pc = "done" /\ letters = None
    /\ substrings = Some(<< <<"r", "a">>, <<"a", "n">> >>)
    /\ words = << <<"c", "r", "a", "n", "e">>, <<"C", "r", "a", "t", "e">> >>
    /\ valid_words = << <<"c", "r", "a", "n", "e">> >>

(* C8: for a text of n non-empty lines, each ended by a newline, and no     *)
(* constraint at all, the number printed is n.                              *)
NewlineEnded(t) ==
    /\ Len(t) > 0 /\ t[Len(t)] = NL /\ t[1] # NL
    /\ \A j \in 1..(Len(t) - 1) : ~(t[j] = NL /\ t[j + 1] = NL)

C8_TrailingLineNotCounted ==
    (pc = "done" /\ NoConstraints /\ NewlineEnded(Value(res))) =>
        stdout = << Cardinality({ j \in 1..Len(Value(res)) : Value(res)[j] = NL }) >>

(* C9: validate, then fetch, then filter, then print: a ValueError ends the *)
(* run before the GET, a failed GET ends it before any entry is filtered,   *)
(* no failed run has printed, and the count is printed at most once, only   *)
(* after validation, a successful GET and the filtering of every entry;     *)
(* a run that completes has printed it once.                                *)
C9_StepOrder ==
    /\ error \in ValueErrors =>
          pc = "failed" /\ gets = 0 /\ res = None /\ idx = 0 /\ stdout = << >>
    /\ error \in {"ConnectionError", "HTTPError"} =>
          /\ pc = "failed" /\ gets = 1 /\ res = None
          /\ idx = 0 /\ valid_words = << >> /\ stdout = << >>
    /\ pc = "failed" => stdout = << >>
    /\ gets >= 1 => pc # "cli" /\ cli(letters, positions, substrings) = ""
    /\ (idx >= 1 \/ res # None) => gets = 1
    /\ Len(stdout) <= 1
    /\ stdout # << >> =>
          /\ pc = "done" /\ error = "" /\ gets = 1 /\ res # None
          /\ idx = Len(words)
    /\ pc = "done" => Len(stdout) = 1

C9_Witness ==
    pc = "failed" /\ error = "HTTPError" /\ gets = 1 /\ positions # None

(* C10: a run fails only with a ValueError of cli or with a failed GET:     *)
(* after a successful GET every entry is filtered without an exception.     *)
C10_OnlyTwoFailures ==
    pc = "failed" => error \in ValueErrors \cup {"ConnectionError", "HTTPError"}

====
